---- MODULE Spec2Model ----
(***************************************************************************)
(* Connection lifecycle supervisors of the market-data feed service.       *)
(*                                                                         *)
(* Two managers live in the repository and are modelled side by side:      *)
(*   - the single-connection WebSocketManager of src/main.py, which keeps  *)
(*     one worker process and replaces it on every POST /watchlist/add     *)
(*     (specification Spec);                                               *)
(*   - the multi-connection WebSocketManager of                            *)
(*     src/app/services/websocket_manager.py, which keeps a registry of    *)
(*     worker threads fed by POST /token-update (specification SpecMulti). *)
(*     SpecWorker, SpecFeed and SpecSource run the same actions on fewer   *)
(*     stored values (SpecWorker and SpecSource without the data and error *)
(*     callbacks, SpecSource with a source that is empty at times), and    *)
(*     FairSpecWorker adds the scheduling of the threads and of cleanup(). *)
(***************************************************************************)
EXTENDS Integers, Sequences, FiniteSets, TLC

(***************************************************************************)
(* Bounds of the model.                                                    *)
(***************************************************************************)
\* number of worker processes the single-connection manager may create
MaxProcs == 3
\* number of worker threads the multi-connection manager may create
MaxThreads == 2

(***************************************************************************)
(* Subscription sets: a sequence of groups {exchangeType, tokens}.         *)
(***************************************************************************)
\* TokenList(exchangeType, tokens).dict()
TokenList(e, t) == [exchangeType |-> e, tokens |-> t]

\* valid_types of TokenList.validate_exchange_type
valid_types == {1, 2, 3, 4, 5, 7, 13}

\* the values of key smartapi:tokens the desired-state source stores
DesiredSets ==
    { << TokenList(1, <<1, 2>>) >>,
      << TokenList(1, <<2, 1>>) >>,
      << TokenList(2, <<1>>) >>,
      << TokenList(999, <<1>>) >> }

\* the request bodies clients POST to /watchlist/add
RequestBodies ==
    { << TokenList(1, <<1, 2>>) >>,
      << TokenList(2, <<1>>) >>,
      << TokenList(999, <<1>>) >> }

\* number of requests that may wait for the event loop at once
MaxPending == 2

\* pydantic validation of List[TokenList]: every group passes the validator
validate_exchange_type(tokens) ==
    \A i \in 1..Len(tokens) : tokens[i].exchangeType \in valid_types

\* Python's None for current_process / stop_event
None == 0

VARIABLES
    \* ---- src/main.py ----
    current_process,   \* WebSocketManager.current_process: None or a process id
    stop_event,        \* WebSocketManager.stop_event: None or the id of the event's process
    token_lists,       \* WebSocketManager.token_lists
    procs,             \* every multiprocessing.Process created so far, by id
    pending,           \* request bodies received and waiting for the event loop
    pc,                \* position of the handler the event loop is running
    token_dicts,       \* the running handler's local token_dicts
    response,          \* the last HTTP response produced
    committed,         \* history: the set of the last transition that returned normally
    \* ---- src/app ----
    connections,       \* WebSocketManager.connections: connection_id -> record
    svc_token_lists,   \* WebSocketManager.token_lists (multi-connection)
    threads,           \* every threading.Thread created so far, by id
    now,               \* the second read by the latest datetime.now()
    svc_pc,            \* position of the service's event loop / cleanup()
    cleanup_ids,       \* cleanup(): connection ids still to clean
    svc_response,      \* the last HTTP response of the service
    tick_sink,         \* the worker of the payload last handed to publish_market_data
    error_log          \* the worker of the transport error on_error logged last

main_vars == << current_process, stop_event, token_lists, procs, pending, pc, token_dicts,
                response, committed >>
svc_vars == << connections, svc_token_lists, threads, now, svc_pc,
               cleanup_ids, svc_response, tick_sink, error_log >>
vars == << current_process, stop_event, token_lists, procs, pending, pc, token_dicts,
           response, committed, connections, svc_token_lists, threads, now, svc_pc, cleanup_ids,
           svc_response, tick_sink, error_log >>

(***************************************************************************)
(* src/main.py: the worker process                                         *)
(***************************************************************************)
\* multiprocessing.Process(target=websocket_process, args=(token_lists, stop_event)).start()
NewProcess(tokens) ==
    [state |-> "running", token_lists |-> tokens, stop_set |-> FALSE,
     terminated |-> FALSE, killed |-> FALSE]

\* a process that was started and has not ended
Alive(process) == process.state \in {"running", "closing"}

\* Process.is_alive()
is_alive(p) == Alive(procs[p])

\* websocket_process: the polling loop sees the stop event and closes the connection
WorkerObserveStop(p) ==
    /\ UNCHANGED svc_vars
    /\ procs[p].state = "running"
    /\ procs[p].stop_set
    /\ procs' = [procs EXCEPT ![p].state = "closing"]
    /\ UNCHANGED << current_process, stop_event, token_lists, pending, pc, token_dicts,
                    response, committed >>

\* websocket_process: ws_thread.join() returns and the process ends
WorkerExit(p) ==
    /\ UNCHANGED svc_vars
    /\ procs[p].state = "closing"
    /\ procs' = [procs EXCEPT ![p].state = "dead"]
    /\ UNCHANGED << current_process, stop_event, token_lists, pending, pc, token_dicts,
                    response, committed >>

\* websocket_process: an exception escapes (except: ... raise) and the process ends
WorkerCrash(p) ==
    /\ UNCHANGED svc_vars
    /\ procs[p].state = "running"
    /\ procs' = [procs EXCEPT ![p].state = "dead"]
    /\ UNCHANGED << current_process, stop_event, token_lists, pending, pc, token_dicts,
                    response, committed >>

\* the operating system delivers SIGTERM / SIGKILL to a process that was sent one
WorkerSignalled(p) ==
    /\ UNCHANGED svc_vars
    /\ is_alive(p)
    /\ procs[p].terminated \/ procs[p].killed
    /\ procs' = [procs EXCEPT ![p].state = "dead"]
    /\ UNCHANGED << current_process, stop_event, token_lists, pending, pc, token_dicts,
                    response, committed >>

(***************************************************************************)
(* src/main.py: WebSocketManager.start_new_websocket                       *)
(***************************************************************************)
\* lines 138-150: drop the old references, create the event and the process, start it
CreateAndStart ==
    /\ procs' = Append(procs, NewProcess(token_dicts))
    /\ current_process' = Len(procs) + 1
    /\ stop_event' = Len(procs) + 1
    /\ pc' = "poll"

\* lines 120-126: an old process exists: set its stop event and join(timeout=5)
StopExisting(ps) ==
    [ps EXCEPT ![stop_event].stop_set = TRUE]

\* a client sends POST /watchlist/add; the request waits for the event loop
ReceiveRequest(tokens) ==
    /\ UNCHANGED svc_vars
    /\ tokens \notin pending
    /\ Cardinality(pending) < MaxPending
    /\ Len(procs) + Cardinality(pending) < MaxProcs
    /\ pending' = pending \cup {tokens}
    /\ UNCHANGED << current_process, stop_event, token_lists, procs, pc, token_dicts,
                    response, committed >>

\* mutant of EventLoopFree: a handler is dispatched while another is in flight
EventLoopReentrant == pc # "down"

\* the handlers are `async def` and never await: the event loop runs one at a time
EventLoopFree == pc = "idle"

\* POST /watchlist/add: validation, token_lists assignment and the first segment
\* of start_new_websocket, up to the first blocking call
AddToWatchlist(tokens) ==
    /\ UNCHANGED svc_vars
    /\ tokens \in pending
    /\ EventLoopFree
    /\ pending' = pending \ {tokens}
    /\ IF ~validate_exchange_type(tokens)
       THEN /\ response' = [status |-> 422, body |-> << >>]
            /\ UNCHANGED << current_process, stop_event, token_lists, procs, pc,
                            token_dicts, committed >>
       ELSE /\ token_lists' = tokens
            /\ token_dicts' = tokens
            /\ IF stop_event # None /\ current_process # None
               THEN /\ procs' = StopExisting(procs)
                    /\ pc' = "join_grace"
                    /\ UNCHANGED << current_process, stop_event >>
               ELSE /\ procs' = Append(procs, NewProcess(tokens))
                    /\ current_process' = Len(procs) + 1
                    /\ stop_event' = Len(procs) + 1
                    /\ pc' = "poll"
            /\ UNCHANGED << response, committed >>

\* mutant of JoinGrace: join() without a timeout returns only once the process ended
JoinGraceWithoutTimeout ==
    /\ UNCHANGED svc_vars
    /\ pc = "join_grace"
    /\ ~is_alive(current_process)
    /\ CreateAndStart
    /\ UNCHANGED << token_lists, pending, token_dicts, response, committed >>

\* lines 126-131: join(timeout=5) returned; terminate() the process if it is alive
JoinGrace ==
    /\ UNCHANGED svc_vars
    /\ pc = "join_grace"
    /\ IF is_alive(current_process)
       THEN /\ procs' = [procs EXCEPT ![current_process].terminated = TRUE]
            /\ pc' = "join_force"
            /\ UNCHANGED << current_process, stop_event >>
       ELSE CreateAndStart
    /\ UNCHANGED << token_lists, pending, token_dicts, response, committed >>

\* mutant of JoinForce: the kill() escalation is missing
JoinForceWithoutKill ==
    /\ UNCHANGED svc_vars
    /\ pc = "join_force"
    /\ CreateAndStart
    /\ UNCHANGED << token_lists, pending, token_dicts, response, committed >>

\* lines 131-136: join(timeout=2) returned; kill() the process if it is alive
JoinForce ==
    /\ UNCHANGED svc_vars
    /\ pc = "join_force"
    /\ IF is_alive(current_process)
       THEN /\ procs' = [procs EXCEPT ![current_process].killed = TRUE]
            /\ pc' = "join_kill"
            /\ UNCHANGED << current_process, stop_event >>
       ELSE CreateAndStart
    /\ UNCHANGED << token_lists, pending, token_dicts, response, committed >>

\* mutant of JoinKill: an old process that survived kill() makes the transition raise
JoinKillRaises ==
    /\ UNCHANGED svc_vars
    /\ pc = "join_kill"
    /\ IF is_alive(current_process)
       THEN /\ response' = [status |-> 500, body |-> << >>]
            /\ current_process' = None
            /\ stop_event' = None
            /\ pc' = "idle"
            /\ UNCHANGED procs
       ELSE /\ CreateAndStart
            /\ UNCHANGED response
    /\ UNCHANGED << token_lists, pending, token_dicts, committed >>

\* lines 136-150: join(timeout=1) returned; the old process is dropped, alive or not
JoinKill ==
    /\ UNCHANGED svc_vars
    /\ pc = "join_kill"
    /\ CreateAndStart
    /\ UNCHANGED << token_lists, pending, token_dicts, response, committed >>

\* mutant of PollStartup: the except block does not clear the references
PollStartupKeepsReferences ==
    /\ UNCHANGED svc_vars
    /\ pc = "poll"
    /\ IF is_alive(current_process)
       THEN /\ response' = [status |-> 200, body |-> token_dicts]
            /\ committed' = token_dicts
       ELSE /\ response' = [status |-> 500, body |-> << >>]
            /\ UNCHANGED committed
    /\ pc' = "idle"
    /\ UNCHANGED << current_process, stop_event, token_lists, procs, pending,
                    token_dicts >>

\* lines 153-168 and the handler's return: the startup poll (a process that is not
\* alive stays so until the timeout; the except block clears the references)
PollStartup ==
    /\ UNCHANGED svc_vars
    /\ pc = "poll"
    /\ IF is_alive(current_process)
       THEN /\ response' = [status |-> 200, body |-> token_dicts]
            /\ committed' = token_dicts
            /\ UNCHANGED << current_process, stop_event >>
       ELSE /\ response' = [status |-> 500, body |-> << >>]
            /\ current_process' = None
            /\ stop_event' = None
            /\ UNCHANGED committed
    /\ pc' = "idle"
    /\ UNCHANGED << token_lists, procs, pending, token_dicts >>

\* GET /watchlist
GetWatchlist ==
    /\ UNCHANGED svc_vars
    /\ EventLoopFree
    /\ response' = [status |-> 200, body |-> token_lists]
    /\ UNCHANGED << current_process, stop_event, token_lists, procs, pending, pc,
                    token_dicts, committed >>

(***************************************************************************)
(* src/main.py: shutdown_event                                             *)
(***************************************************************************)
\* lines 17-21: set the stop event and join(timeout=5) the current process
ShutdownEvent ==
    /\ UNCHANGED svc_vars
    /\ EventLoopFree
    /\ IF stop_event # None
       THEN /\ procs' = StopExisting(procs)
            /\ pc' = IF current_process # None THEN "sd_join_grace" ELSE "down"
       ELSE /\ pc' = "down"
            /\ UNCHANGED procs
    /\ UNCHANGED << current_process, stop_event, token_lists, pending, token_dicts,
                    response, committed >>

\* lines 21-25: join(timeout=5) returned; terminate() if alive, then join(timeout=2)
ShutdownJoinGrace ==
    /\ UNCHANGED svc_vars
    /\ pc = "sd_join_grace"
    /\ IF is_alive(current_process)
       THEN /\ procs' = [procs EXCEPT ![current_process].terminated = TRUE]
            /\ pc' = "sd_join_force"
       ELSE /\ pc' = "down"
            /\ UNCHANGED procs
    /\ UNCHANGED << current_process, stop_event, token_lists, pending, token_dicts,
                    response, committed >>

\* lines 25-29: join(timeout=2) returned; kill() if alive
ShutdownJoinForce ==
    /\ UNCHANGED svc_vars
    /\ pc = "sd_join_force"
    /\ procs' = IF is_alive(current_process)
                THEN [procs EXCEPT ![current_process].killed = TRUE]
                ELSE procs
    /\ pc' = "down"
    /\ UNCHANGED << current_process, stop_event, token_lists, pending, token_dicts,
                    response, committed >>

(***************************************************************************)
(* src/app/services/websocket_manager.py: the worker thread                *)
(***************************************************************************)
\* a worker that has issued no subscribe (or has unsubscribed)
NoSubscription == << >>

\* threading.Thread(target=_run_websocket, args=(connection_id, token_lists, stop_event))
NewThread(connection_id, tokens) ==
    [state |-> "started", connection_id |-> connection_id, token_lists |-> tokens,
     stop_set |-> FALSE, subscribed |-> NoSubscription]

\* Thread.is_alive()
thread_is_alive(t) == threads[t].state # "dead"

\* `self.connections[connection_id].is_active = False`
SetInactive(conns, connection_id) ==
    [conns EXCEPT ![connection_id].is_active = FALSE]

\* line 127: the finally block's test `if connection_id in self.connections`; a key
\* that is found leaves the write of line 128 to do, a missing key ends the thread
EnterFinally(t) ==
    IF threads[t].connection_id \in DOMAIN connections
    THEN "finally_found"
    ELSE "dead"

\* lines 55-109: build the socket, store it in the registry record, enter connect()
ThreadRegister(t) ==
    /\ UNCHANGED main_vars
    /\ threads[t].state = "started"
    /\ threads' = [threads EXCEPT ![t].state = "connected"]
    /\ connections' =
         IF threads[t].connection_id \in DOMAIN connections
         THEN [connections EXCEPT ![threads[t].connection_id].websocket = t]
         ELSE connections
    /\ UNCHANGED << svc_token_lists, now, svc_pc, cleanup_ids,
                    svc_response, tick_sink, error_log >>

\* mutant of ThreadOnOpen: subscribe with the manager's current set, not the worker's
ThreadOnOpenCurrentSet(t) ==
    /\ UNCHANGED main_vars
    /\ threads[t].state = "connected"
    /\ threads' = [threads EXCEPT
                     ![t].state = "open",
                     ![t].subscribed = IF ~threads[t].stop_set
                                       THEN svc_token_lists
                                       ELSE NoSubscription]
    /\ UNCHANGED << connections, svc_token_lists, now, svc_pc, cleanup_ids,
                    svc_response, tick_sink, error_log >>

\* on_open, lines 81-89: the transport opened; subscribe unless the stop event is set
ThreadOnOpen(t) ==
    /\ UNCHANGED main_vars
    /\ threads[t].state = "connected"
    /\ threads' = [threads EXCEPT
                     ![t].state = "open",
                     ![t].subscribed = IF ~threads[t].stop_set
                                       THEN threads[t].token_lists
                                       ELSE NoSubscription]
    /\ UNCHANGED << connections, svc_token_lists, now, svc_pc, cleanup_ids,
                    svc_response, tick_sink, error_log >>

\* mutant of ThreadOnData: the payload is handed on without the stop event test
ThreadOnDataUnconditional(t) ==
    /\ UNCHANGED main_vars
    /\ threads[t].state = "open"
    /\ tick_sink' = t
    /\ UNCHANGED << connections, svc_token_lists, threads, now, svc_pc, cleanup_ids,
                    svc_response, error_log >>

\* on_data, lines 66-79: a payload arrives; unless the stop event is set it is handed
\* to redis_manager.publish_market_data on a thread of its own
ThreadOnData(t) ==
    /\ UNCHANGED main_vars
    /\ threads[t].state = "open"
    /\ tick_sink' = IF ~threads[t].stop_set THEN t ELSE tick_sink
    /\ UNCHANGED << connections, svc_token_lists, threads, now, svc_pc, cleanup_ids,
                    svc_response, error_log >>

\* mutant of ThreadOnError: a transport error ends the worker
ThreadOnErrorEndsWorker(t) ==
    /\ UNCHANGED main_vars
    /\ threads[t].state \in {"connected", "open"}
    /\ error_log' = IF ~threads[t].stop_set THEN t ELSE error_log
    /\ threads' = [threads EXCEPT ![t].state = EnterFinally(t)]
    /\ UNCHANGED << connections, svc_token_lists, now, svc_pc, cleanup_ids,
                    svc_response, tick_sink >>

\* on_error, lines 91-93: the transport reports an error; it is logged unless the
\* stop event is set
ThreadOnError(t) ==
    /\ UNCHANGED main_vars
    /\ threads[t].state \in {"connected", "open"}
    /\ error_log' = IF ~threads[t].stop_set THEN t ELSE error_log
    /\ UNCHANGED << connections, svc_token_lists, threads, now, svc_pc, cleanup_ids,
                    svc_response, tick_sink >>

\* on_close, lines 95-97: the transport closes and on_close tests
\* `if connection_id in self.connections`; with the key missing connect() returns
ThreadOnClose(t) ==
    /\ UNCHANGED main_vars
    /\ threads[t].state \in {"connected", "open"}
    /\ threads' = [threads EXCEPT
                     ![t].state = IF threads[t].connection_id \in DOMAIN connections
                                  THEN "on_close_found"
                                  ELSE "polling"]
    /\ UNCHANGED << connections, svc_token_lists, now, svc_pc, cleanup_ids,
                    svc_response, tick_sink, error_log >>

\* on_close, line 98, and the return of connect(): the write of is_active. Indexing a
\* key removed since the test raises KeyError inside the callback, which the
\* transport library either swallows or lets out of connect() to the except block
ThreadOnCloseWrite(t) ==
    /\ UNCHANGED main_vars
    /\ threads[t].state = "on_close_found"
    /\ IF threads[t].connection_id \in DOMAIN connections
       THEN /\ connections' = SetInactive(connections, threads[t].connection_id)
            /\ threads' = [threads EXCEPT ![t].state = "polling"]
       ELSE /\ UNCHANGED connections
            /\ \E after \in {"polling", EnterFinally(t)} :
                  threads' = [threads EXCEPT ![t].state = after]
    /\ UNCHANGED << svc_token_lists, now, svc_pc, cleanup_ids,
                    svc_response, tick_sink, error_log >>

\* lines 124-127: an exception in the thread body; the except block logs it and the
\* finally block tests the key
ThreadError(t) ==
    /\ UNCHANGED main_vars
    /\ threads[t].state \in {"started", "connected", "open"}
    /\ threads' = [threads EXCEPT ![t].state = EnterFinally(t)]
    /\ UNCHANGED << connections, svc_token_lists, now, svc_pc, cleanup_ids,
                    svc_response, tick_sink, error_log >>

\* lines 111-127: the polling loop sees the stop event: unsubscribe, close_connection,
\* then the finally block tests the key
ThreadObserveStop(t) ==
    /\ UNCHANGED main_vars
    /\ threads[t].state = "polling"
    /\ threads[t].stop_set
    /\ threads' = [threads EXCEPT ![t].state = EnterFinally(t),
                                  ![t].subscribed = NoSubscription]
    /\ UNCHANGED << connections, svc_token_lists, now, svc_pc, cleanup_ids,
                    svc_response, tick_sink, error_log >>

\* mutant of ThreadFinallyWrite: the finally block ends the thread without the write
ThreadFinallyNoWrite(t) ==
    /\ UNCHANGED main_vars
    /\ threads[t].state = "finally_found"
    /\ threads' = [threads EXCEPT ![t].state = "dead"]
    /\ UNCHANGED << connections, svc_token_lists, now, svc_pc, cleanup_ids,
                    svc_response, tick_sink, error_log >>

\* line 128: the finally block's write of is_active; indexing a key removed since the
\* test raises KeyError, which ends the thread
ThreadFinallyWrite(t) ==
    /\ UNCHANGED main_vars
    /\ threads[t].state = "finally_found"
    /\ threads' = [threads EXCEPT ![t].state = "dead"]
    /\ connections' =
         IF threads[t].connection_id \in DOMAIN connections
         THEN SetInactive(connections, threads[t].connection_id)
         ELSE connections
    /\ UNCHANGED << svc_token_lists, now, svc_pc, cleanup_ids,
                    svc_response, tick_sink, error_log >>

(***************************************************************************)
(* src/app/services/websocket_manager.py: the manager                      *)
(***************************************************************************)
\* the seconds datetime.now() may read: the second of the previous call or the next
ClockReadings == {now, now + 1}

\* datetime.now().strftime("%Y%m%d_%H%M%S"): one identifier per clock second
connection_id(clock) == clock

\* WebSocketConnection(id, websocket=None, thread, stop_event, token_lists, created_at)
WebSocketConnection(clock, t, tokens) ==
    [id |-> connection_id(clock), websocket |-> None, thread |-> t,
     token_lists |-> tokens, created_at |-> clock, is_active |-> TRUE]

\* start_new_websocket: self.connections[connection_id] = connection
StoreInRegistry(conns, clock, t, tokens) ==
    (connection_id(clock) :> WebSocketConnection(clock, t, tokens)) @@ conns

\* start_new_websocket(token_lists), called at second clock: registry store, thread.start()
start_new_websocket(tokens, clock) ==
    /\ now' = clock
    /\ connections' = StoreInRegistry(connections, clock, Len(threads) + 1, tokens)
    /\ threads' = Append(threads, NewThread(connection_id(clock), tokens))

\* update_tokens(new_tokens), called at second clock
update_tokens(new_tokens, clock) ==
    IF new_tokens # svc_token_lists
    THEN /\ svc_token_lists' = new_tokens
         /\ start_new_websocket(new_tokens, clock)
    ELSE /\ UNCHANGED svc_token_lists
         /\ start_new_websocket(new_tokens, clock)

\* what key smartapi:tokens may hold when it is read: nothing, or a JSON list
RedisValues ==
    { [present |-> FALSE, tokens |-> << >>] } \cup
    { [present |-> TRUE, tokens |-> tokens] : tokens \in DesiredSets \cup { << >> } }

\* RedisManager.get_tokens: None when the key holds nothing, else json.loads
get_tokens(tokens_json) ==
    IF tokens_json.present
    THEN [is_none |-> FALSE, value |-> tokens_json.tokens]
    ELSE [is_none |-> TRUE, value |-> << >>]

\* mutant of NotTokens: only None counts as no tokens, an empty list is a set
NotTokensNoneOnly(new_tokens) == new_tokens.is_none

\* `not new_tokens`
NotTokens(new_tokens) == new_tokens.is_none \/ new_tokens.value = << >>

\* POST /token-update at second clock, with key smartapi:tokens holding tokens_json
TokenUpdate(tokens_json, clock) ==
    /\ UNCHANGED main_vars
    /\ UNCHANGED << tick_sink, error_log >>
    /\ svc_pc = "idle"
    /\ Len(threads) < MaxThreads
    /\ IF NotTokens(get_tokens(tokens_json))
       THEN /\ svc_response' = [status |-> 200, updated |-> FALSE, tokens |-> << >>]
            /\ UNCHANGED << connections, svc_token_lists, threads, now >>
       ELSE /\ update_tokens(get_tokens(tokens_json).value, clock)
            /\ svc_response' = [status |-> 200, updated |-> TRUE,
                                tokens |-> svc_token_lists']
    /\ UNCHANGED << svc_pc, cleanup_ids >>

\* GET /watchlist of the service
SvcGetWatchlist ==
    /\ UNCHANGED main_vars
    /\ UNCHANGED << tick_sink, error_log >>
    /\ svc_pc = "idle"
    /\ svc_response' = [status |-> 200, updated |-> FALSE, tokens |-> svc_token_lists]
    /\ UNCHANGED << connections, svc_token_lists, threads, now, svc_pc,
                    cleanup_ids >>

\* `del self.connections[connection_id]`
DelConnection(conns, id) ==
    [k \in DOMAIN conns \ {id} |-> conns[k]]

\* the next entry of connection_ids in cleanup()'s for loop (insertion order)
NextCleanupId == CHOOSE id \in cleanup_ids : \A other \in cleanup_ids : id <= other

\* cleanup(): connection_ids = list(self.connections.keys())
Cleanup ==
    /\ UNCHANGED main_vars
    /\ UNCHANGED << tick_sink, error_log >>
    /\ svc_pc = "idle"
    /\ cleanup_ids' = DOMAIN connections
    /\ svc_pc' = "cleanup"
    /\ UNCHANGED << connections, svc_token_lists, threads, now,
                    svc_response >>

\* _cleanup_connection, lines 174-179: set the stop event, join(timeout=5) if alive
CleanupConnection ==
    /\ UNCHANGED main_vars
    /\ UNCHANGED << tick_sink, error_log >>
    /\ svc_pc = "cleanup"
    /\ cleanup_ids # {}
    /\ LET id == NextCleanupId
       IN IF id \in DOMAIN connections
          THEN /\ threads' = [threads EXCEPT ![connections[id].thread].stop_set = TRUE]
               /\ IF thread_is_alive(connections[id].thread)
                  THEN /\ svc_pc' = "cleanup_join"
                       /\ UNCHANGED << connections, cleanup_ids >>
                  ELSE /\ connections' = DelConnection(connections, id)
                       /\ cleanup_ids' = cleanup_ids \ {id}
                       /\ UNCHANGED svc_pc
          ELSE /\ cleanup_ids' = cleanup_ids \ {id}
               /\ UNCHANGED << connections, threads, svc_pc >>
    /\ UNCHANGED << svc_token_lists, now, svc_response >>

\* _cleanup_connection, lines 179-180: join(timeout=5) returned; delete the record
CleanupJoin ==
    /\ UNCHANGED main_vars
    /\ UNCHANGED << tick_sink, error_log >>
    /\ svc_pc = "cleanup_join"
    /\ connections' = DelConnection(connections, NextCleanupId)
    /\ cleanup_ids' = cleanup_ids \ {NextCleanupId}
    /\ svc_pc' = "cleanup"
    /\ UNCHANGED << svc_token_lists, threads, now, svc_response >>

\* cleanup(): the for loop is over
CleanupDone ==
    /\ UNCHANGED main_vars
    /\ UNCHANGED << tick_sink, error_log >>
    /\ svc_pc = "cleanup"
    /\ cleanup_ids = {}
    /\ svc_pc' = "idle"
    /\ UNCHANGED << connections, svc_token_lists, threads, now,
                    cleanup_ids, svc_response >>

Init ==
    /\ current_process = None
    /\ pending = {}
    /\ stop_event = None
    /\ token_lists = << >>
    /\ procs = << >>
    /\ pc = "idle"
    /\ token_dicts = << >>
    /\ response = [status |-> 0, body |-> << >>]
    /\ committed = << >>
    /\ connections = << >>
    /\ svc_token_lists = << >>
    /\ threads = << >>
    /\ now = 0
    /\ svc_pc = "idle"
    /\ cleanup_ids = {}
    /\ svc_response = [status |-> 0, updated |-> FALSE, tokens |-> << >>]
    /\ tick_sink = None
    /\ error_log = None

\* every process the manager has created
Procs == 1..Len(procs)

\* every thread the manager has created
Threads == 1..Len(threads)

\* src/main.py: the event-loop handlers and the worker processes
Next ==
    \/ \E tokens \in RequestBodies : ReceiveRequest(tokens)
    \/ \E tokens \in RequestBodies : AddToWatchlist(tokens)
    \/ JoinGrace
    \/ JoinForce
    \/ JoinKill
    \/ PollStartup
    \/ GetWatchlist
    \/ ShutdownEvent
    \/ ShutdownJoinGrace
    \/ ShutdownJoinForce
    \/ \E p \in Procs : WorkerObserveStop(p)
    \/ \E p \in Procs : WorkerExit(p)
    \/ \E p \in Procs : WorkerCrash(p)
    \/ \E p \in Procs : WorkerSignalled(p)

Spec == Init /\ [][Next]_vars

\* src/app: the event-loop handlers, cleanup() and the worker threads
NextMulti ==
    \/ \E tokens_json \in RedisValues, clock \in ClockReadings :
          TokenUpdate(tokens_json, clock)
    \/ SvcGetWatchlist
    \/ Cleanup
    \/ CleanupConnection
    \/ CleanupJoin
    \/ CleanupDone
    \/ \E t \in Threads : ThreadRegister(t)
    \/ \E t \in Threads : ThreadOnOpen(t)
    \/ \E t \in Threads : ThreadOnData(t)
    \/ \E t \in Threads : ThreadOnError(t)
    \/ \E t \in Threads : ThreadOnClose(t)
    \/ \E t \in Threads : ThreadOnCloseWrite(t)
    \/ \E t \in Threads : ThreadError(t)
    \/ \E t \in Threads : ThreadObserveStop(t)
    \/ \E t \in Threads : ThreadFinallyWrite(t)

SpecMulti == Init /\ [][NextMulti]_vars

\* two stored values that start a worker: valid sets that differ
WorkerValues ==
    { [present |-> TRUE, tokens |-> tokens] :
        tokens \in { << TokenList(1, <<1, 2>>) >>, << TokenList(2, <<1>>) >> } }

\* src/app: the life of the worker threads (start, open, close, stop, end) under the
\* manager operations that start and retire them
NextWorker ==
    \/ \E tokens_json \in WorkerValues, clock \in ClockReadings :
          TokenUpdate(tokens_json, clock)
    \/ Cleanup
    \/ CleanupConnection
    \/ CleanupJoin
    \/ CleanupDone
    \/ \E t \in Threads : ThreadRegister(t)
    \/ \E t \in Threads : ThreadOnOpen(t)
    \/ \E t \in Threads : ThreadOnClose(t)
    \/ \E t \in Threads : ThreadOnCloseWrite(t)
    \/ \E t \in Threads : ThreadError(t)
    \/ \E t \in Threads : ThreadObserveStop(t)
    \/ \E t \in Threads : ThreadFinallyWrite(t)

SpecWorker == Init /\ [][NextWorker]_vars

\* the steps a worker thread takes by itself once it is scheduled; the events of the
\* transport (open, data, error, close) and exceptions are the feed server's to give
ThreadRuns(t) ==
    /\ t \in Threads
    /\ \/ ThreadRegister(t)
       \/ ThreadOnCloseWrite(t)
       \/ ThreadObserveStop(t)
       \/ ThreadFinallyWrite(t)

\* the manager's own steps: cleanup() runs to its end once it is called
ManagerRuns == CleanupConnection \/ CleanupJoin \/ CleanupDone

\* SpecWorker with every thread and the manager scheduled fairly
FairSpecWorker ==
    /\ SpecWorker
    /\ \A t \in 1..MaxThreads : WF_vars(ThreadRuns(t))
    /\ WF_vars(ManagerRuns)

\* one stored value that starts a worker
FeedValues == { [present |-> TRUE, tokens |-> << TokenList(1, <<1, 2>>) >>] }

\* src/app: the worker threads with the data and error callbacks of the feed
NextFeed ==
    \/ \E tokens_json \in FeedValues, clock \in ClockReadings :
          TokenUpdate(tokens_json, clock)
    \/ Cleanup
    \/ CleanupConnection
    \/ CleanupJoin
    \/ CleanupDone
    \/ \E t \in Threads : ThreadRegister(t)
    \/ \E t \in Threads : ThreadOnOpen(t)
    \/ \E t \in Threads : ThreadOnData(t)
    \/ \E t \in Threads : ThreadOnError(t)
    \/ \E t \in Threads : ThreadOnClose(t)
    \/ \E t \in Threads : ThreadOnCloseWrite(t)
    \/ \E t \in Threads : ThreadError(t)
    \/ \E t \in Threads : ThreadObserveStop(t)
    \/ \E t \in Threads : ThreadFinallyWrite(t)

SpecFeed == Init /\ [][NextFeed]_vars

\* the stored values of a source that is empty at times: nothing, an empty list, a set
SourceValues ==
    { [present |-> FALSE, tokens |-> << >>],
      [present |-> TRUE, tokens |-> << >>],
      [present |-> TRUE, tokens |-> << TokenList(1, <<1, 2>>) >>] }

\* src/app: the handlers fed by a source that is empty at times, cleanup() and the
\* life of the worker threads
NextSource ==
    \/ \E tokens_json \in SourceValues, clock \in ClockReadings :
          TokenUpdate(tokens_json, clock)
    \/ SvcGetWatchlist
    \/ Cleanup
    \/ CleanupConnection
    \/ CleanupJoin
    \/ CleanupDone
    \/ \E t \in Threads : ThreadRegister(t)
    \/ \E t \in Threads : ThreadOnOpen(t)
    \/ \E t \in Threads : ThreadOnClose(t)
    \/ \E t \in Threads : ThreadOnCloseWrite(t)
    \/ \E t \in Threads : ThreadError(t)
    \/ \E t \in Threads : ThreadObserveStop(t)
    \/ \E t \in Threads : ThreadFinallyWrite(t)

SpecSource == Init /\ [][NextSource]_vars
(***************************************************************************)
(* Properties of the transitions                                           *)
(***************************************************************************)
\* the set update_tokens is handed when key smartapi:tokens holds tokens_json
Submitted(tokens_json) == get_tokens(tokens_json).value

\* POST /token-update reaches update_tokens with the set new_tokens
UpdateSubscription(tokens_json, clock) ==
    /\ TokenUpdate(tokens_json, clock)
    /\ ~NotTokens(get_tokens(tokens_json))

\* no worker thread and no connection record is started, and the accepted set stays
NoTransition ==
    /\ threads' = threads
    /\ connections' = connections
    /\ svc_token_lists' = svc_token_lists

\* C1: updateSubscription with a set equal to the accepted set is a no-op: no worker
\* or connection record is started, the registry and the accepted set are unchanged
\* and the result reports changed = false.
C1_SameSetIsNoOp ==
    [][\A tokens_json \in RedisValues, clock \in ClockReadings :
          (UpdateSubscription(tokens_json, clock)
             /\ Submitted(tokens_json) = svc_token_lists)
          => (NoTransition /\ svc_response'.updated = FALSE)]_vars

\* the tokens of group i of a subscription set, as a set
TokenSet(tokens, i) == { tokens[i].tokens[k] : k \in 1..Len(tokens[i].tokens) }

\* two subscription sets with the same groups, each group's tokens compared as a set
SameSubscription(a, b) ==
    /\ Len(a) = Len(b)
    /\ \A i \in 1..Len(a) :
         /\ a[i].exchangeType = b[i].exchangeType
         /\ TokenSet(a, i) = TokenSet(b, i)

\* C2: a set obtained from the accepted set only by reordering the tokens inside a
\* group is treated as unchanged: no new worker is started and changed = false.
C2_ReorderIsNoChange ==
    [][\A tokens_json \in RedisValues, clock \in ClockReadings :
          (UpdateSubscription(tokens_json, clock)
             /\ Submitted(tokens_json) # svc_token_lists
             /\ SameSubscription(Submitted(tokens_json), svc_token_lists))
          => (threads' = threads /\ connections' = connections
              /\ svc_response'.updated = FALSE)]_vars

\* C5: a desired set with a group whose exchangeType is not a valid code is rejected
\* before any side effect on every path that feeds updateSubscription: the accepted
\* set, the registry, the workers and all stop signals stay as they were.
C5_InvalidExchangeRejected ==
    [][\A tokens_json \in RedisValues, clock \in ClockReadings :
          (TokenUpdate(tokens_json, clock)
             /\ ~validate_exchange_type(Submitted(tokens_json)))
          => NoTransition]_vars

\* C10: an update_tokens call with a changed set adds exactly one connection record
\* and starts its worker, and leaves every record that existed untouched: none is
\* removed from the registry and none has its stop signal set.
C10_ChangedAddsOneRecord ==
    [][\A tokens_json \in RedisValues, clock \in ClockReadings :
          (UpdateSubscription(tokens_json, clock)
             /\ Submitted(tokens_json) # svc_token_lists)
          => /\ Cardinality(DOMAIN connections') = Cardinality(DOMAIN connections) + 1
             /\ Len(threads') = Len(threads) + 1
             /\ \A id \in DOMAIN connections :
                  /\ id \in DOMAIN connections'
                  /\ connections'[id] = connections[id]
             /\ \A t \in Threads : threads'[t] = threads[t]]_vars
(***************************************************************************)
(* Properties of the single-connection manager                             *)
(***************************************************************************)
\* the worker processes that are alive
AliveProcs == { p \in Procs : is_alive(p) }

\* C3 (as claimed): in every reachable state at most one worker process started by
\* the manager is alive.
C3_AtMostOneAlive == Cardinality(AliveProcs) <= 1

\* C3 (amended): every live worker process other than current_process has been sent
\* kill() at the end of the stop/terminate/kill ladder, so at most one worker that
\* was not killed is alive.
C3_AtMostOneAliveNotKilled ==
    /\ \A p \in AliveProcs : p = current_process \/ procs[p].killed
    /\ Cardinality({ p \in AliveProcs : ~procs[p].killed }) <= 1

\* C3 witness: a worker that ignored the whole ladder is still alive beside its
\* replacement.
C3_LeakedBesideReplacement ==
    \E p \in AliveProcs :
        /\ procs[p].killed
        /\ current_process \in AliveProcs \ {p}

\* the handler is inside start_new_websocket
InTransition == pc \in {"join_grace", "join_force", "join_kill", "poll"}

\* a waiting call is dispatched to its handler
Dispatched == pending' # pending /\ pending' \subseteq pending

C6_BoundedLadder ==
    /\ \A p \in Procs :
         /\ procs[p].killed => procs[p].terminated
         /\ procs[p].terminated => procs[p].stop_set
    /\ \A p \in AliveProcs :
         p < Len(procs) => procs[p].stop_set /\ procs[p].terminated /\ procs[p].killed
    /\ pc = "join_grace" => ENABLED JoinGrace
    /\ pc = "join_force" => ENABLED JoinForce
    /\ pc = "join_kill" => ENABLED JoinKill

\* C6 witness: the final wait of the ladder is reached with the old worker alive.
C6_WorkerIgnoredLadder ==
    /\ pc = "join_kill"
    /\ is_alive(current_process)
    /\ procs[current_process].killed

\* C7: GET /watchlist returns the set of the last transition that completed
\* successfully, never the target of a transition in flight or of one that failed.
C7_InspectionReturnsCommitted ==
    [][GetWatchlist => response'.body = committed]_vars

\* the startup poll of start_new_websocket times out
StartupTimeout == PollStartup /\ ~is_alive(current_process)

\* C8 (as claimed): on a startup timeout an error is raised, current_process and
\* stop_event are None, and no worker started by the manager is alive.
C8_FailureLeavesNoWorker ==
    [][StartupTimeout =>
         /\ response'.status = 500
         /\ current_process' = None /\ stop_event' = None
         /\ \A p \in Procs : ~Alive(procs'[p])]_vars

\* C8 (amended): on a startup timeout an error is raised, current_process and
\* stop_event are None, and no worker is alive except one that was sent kill() when
\* it was retired.
C8_FailureLeavesNoWorkerNotKilled ==
    [][StartupTimeout =>
         /\ response'.status = 500
         /\ current_process' = None /\ stop_event' = None
         /\ \A p \in Procs : Alive(procs'[p]) => procs'[p].killed]_vars

\* C8 witness: a transition that replaced a worker has failed at startup.
C8_ReplacementFailed ==
    /\ pc = "idle"
    /\ response.status = 500
    /\ current_process = None
    /\ Len(procs) >= 2
    /\ ~is_alive(Len(procs))

\* C9: token_lists changes only in the step that returns from a transition whose new
\* worker has reported alive, after the previous worker was retired.
C9_CommitAfterRetireAndAlive ==
    [][token_lists' # token_lists =>
         /\ pc = "poll" /\ pc' = "idle"
         /\ is_alive(current_process)]_vars
(***************************************************************************)
(* Properties of the connection registry and of the worker threads         *)
(***************************************************************************)
\* C11: every start_new_websocket of the multi-connection manager creates a record
\* under an identifier no record of the registry has, at any timing of the calls: the
\* registry grows by exactly that one key, no record that existed is overwritten, and
\* every worker that had a record still has it.
C11_FreshIdentifier ==
    [][\A tokens_json \in RedisValues, clock \in ClockReadings :
          UpdateSubscription(tokens_json, clock)
          => /\ connection_id(clock) \notin DOMAIN connections
             /\ DOMAIN connections' = DOMAIN connections \cup {connection_id(clock)}
             /\ Cardinality(DOMAIN connections') = Cardinality(DOMAIN connections) + 1
             /\ \A id \in DOMAIN connections : connections'[id] = connections[id]
             /\ \A id \in DOMAIN connections :
                  \E kept \in DOMAIN connections' :
                      connections'[kept].thread = connections[id].thread]_vars

\* a step of worker thread t: its thread body or one of its callbacks
ThreadStep(t) ==
    \/ ThreadRegister(t)
    \/ ThreadOnOpen(t)
    \/ ThreadOnData(t)
    \/ ThreadOnError(t)
    \/ ThreadOnClose(t)
    \/ ThreadOnCloseWrite(t)
    \/ ThreadError(t)
    \/ ThreadObserveStop(t)
    \/ ThreadFinallyWrite(t)

\* C12: single-writer discipline: a step of a worker (thread body or callback) changes
\* no field of a connection record other than the record created for that worker.
C12_WritesOwnRecordOnly ==
    [][\A t \in Threads :
          ThreadStep(t)
          => \A id \in DOMAIN connections :
                 connections'[id] # connections[id] => connections[id].thread = t]_vars

\* C13: a connection record leaves the registry only once its worker has ended (the
\* retire operation has no terminate or kill step to run on a thread, so a join that
\* timed out must not be followed by the removal).
C13_RemovedOnlyAfterTermination ==
    [][\A id \in DOMAIN connections :
          id \notin DOMAIN connections'
          => ~thread_is_alive(connections[id].thread)]_vars

\* C14: a worker whose stop event is set while its connection is open eventually
\* sees it, unsubscribes, closes the connection and ends.
C14_StopLeadsToNotAlive ==
    \A t \in 1..MaxThreads :
        (t \in Threads /\ threads[t].state = "open" /\ threads[t].stop_set)
          ~> (t \in Threads /\ ~thread_is_alive(t))

C16_SubscribeOnlyOnOpen ==
    [][\A t \in Threads :
          (/\ threads'[t].subscribed # threads[t].subscribed
           /\ threads'[t].subscribed # NoSubscription)
          => /\ threads[t].state = "connected"
             /\ threads'[t].state = "open"
             /\ threads'[t].subscribed = threads[t].token_lists]_vars

\* C16 witness: a worker whose connection opened is subscribed to the set it was
\* started with while the manager's accepted set is already another one.
C16_SubscribedToOwnSet ==
    \E t \in Threads :
        /\ threads[t].state = "open"
        /\ threads[t].subscribed = threads[t].token_lists
        /\ threads[t].token_lists # svc_token_lists

C18_ErrorAbsorbed ==
    [][\A t \in Threads :
          (~threads[t].stop_set /\ ThreadOnError(t))
          => /\ svc_token_lists' = svc_token_lists
             /\ connections' = connections
             /\ threads' = threads
             /\ svc_pc' = svc_pc
             /\ svc_response' = svc_response]_vars

\* C18 witness: the error of a worker was logged and the worker is still connected,
\* not cancelled, with its record in the registry.
C18_ErrorLoggedWorkerRuns ==
    \E t \in Threads :
        /\ error_log = t
        /\ threads[t].state \in {"connected", "open"}
        /\ ~threads[t].stop_set
        /\ \E id \in DOMAIN connections : connections[id].thread = t

\* C19: a worker that found its key in the registry (on_close or the finally block)
\* still finds it when it writes is_active: the record is never removed in between.
C19_WriteFindsRecord ==
    \A t \in Threads :
        threads[t].state \in {"on_close_found", "finally_found"}
        => threads[t].connection_id \in DOMAIN connections

\* C20: when cleanup() returns the registry is empty and every worker the manager
\* started that is still running has had its stop event set.
C20_CleanupLeavesNothing ==
    [][CleanupDone
       => /\ DOMAIN connections' = {}
          /\ \A t \in Threads : thread_is_alive(t) => threads'[t].stop_set]_vars

(***************************************************************************)
(* Properties of the inspection and of the desired-state source            *)
(***************************************************************************)
\* the keys of a registry in the order of dict.values(): identifiers only grow, so
\* the insertion order is the order of the keys
RECURSIVE ValuesOrder(_)
ValuesOrder(ids) ==
    IF ids = {}
    THEN << >>
    ELSE LET first == CHOOSE id \in ids : \A other \in ids : id <= other
         IN << first >> \o ValuesOrder(ids \ {first})

\* get_active_connections(): one summary per record of self.connections.values()
get_active_connections ==
    LET ids == ValuesOrder(DOMAIN connections)
    IN [i \in 1..Len(ids) |->
          [id |-> connections[ids[i]].id,
           created_at |-> connections[ids[i]].created_at,
           is_active |-> connections[ids[i]].is_active,
           token_count |-> Len(connections[ids[i]].token_lists)]]

\* C21: get_active_connections returns one summary per record of the registry, and no
\* summary reports as active a record whose worker thread has ended.
C21_FinishedNotActive ==
    /\ Len(get_active_connections) = Cardinality(DOMAIN connections)
    /\ \A i \in 1..Len(get_active_connections) :
         /\ get_active_connections[i].id \in DOMAIN connections
         /\ ~thread_is_alive(connections[get_active_connections[i].id].thread)
            => ~get_active_connections[i].is_active

\* C21 witness: the listing holds a record whose worker ended, reported inactive,
\* beside a record whose worker runs, reported active.
C21_ListsEndedAndRunning ==
    \E i, j \in 1..Len(get_active_connections) :
        /\ ~thread_is_alive(connections[get_active_connections[i].id].thread)
        /\ ~get_active_connections[i].is_active
        /\ thread_is_alive(connections[get_active_connections[j].id].thread)
        /\ get_active_connections[j].is_active

\* the desired-state source returns absent: the key holds nothing or an empty list
Absent(tokens_json) == ~tokens_json.present \/ tokens_json.tokens = << >>

\* C22: POST /token-update with the source absent changes nothing: update_tokens is
\* not called, so no worker is started and no record stored; no worker is retired or
\* stopped, and the accepted set, the registry and the clock reading stay.
C22_AbsentChangesNothing ==
    [][\A tokens_json \in RedisValues, clock \in ClockReadings :
          (TokenUpdate(tokens_json, clock) /\ Absent(tokens_json))
          => /\ threads' = threads
             /\ connections' = connections
             /\ svc_token_lists' = svc_token_lists
             /\ now' = now
             /\ cleanup_ids' = cleanup_ids
             /\ svc_pc' = svc_pc
             /\ svc_response'.updated = FALSE]_vars

\* C22 witness: with a set accepted and its record in the registry, the last request
\* found the source absent and was answered without tokens.
C22_AbsentAfterAccepted ==
    /\ svc_token_lists # << >>
    /\ DOMAIN connections # {}
    /\ svc_response = [status |-> 200, updated |-> FALSE, tokens |-> << >>]

====
